---- MODULE Spec2Model ----
(***************************************************************************)
(* A model of build.py, the static RSS/Atom site generator: the entry      *)
(* normalizer (parse_date, format_relative_time, extract_image,            *)
(* process_entry), the content filter (is_ng_content), the aggregator      *)
(* (fetch_all_feeds) and the page and watch builders of main().            *)
(*                                                                         *)
(* Encoding.  A Python str is a sequence of characters, each character a   *)
(* one-element TLA+ string; an <img> tag inside a text is one character    *)
(* (ImgTag).  A dict is a function whose domain is the set of keys that    *)
(* are present, so `k in d` is k \in DOMAIN d.  None is <<>> and a value   *)
(* that may be None is Some(v) = <<v>>.  A struct_time is the epoch second *)
(* it denotes in UTC.  A call that may raise returns Return(v) or          *)
(* Raise(exc).                                                             *)
(***************************************************************************)
EXTENDS Integers, Sequences, FiniteSets, TLC

VARIABLES
    config,        \* the loaded feeds.json: [pages, watches]
    docs,          \* what feedparser.parse returns for a URL that answers
    net,           \* per URL: "up", "down" (times out) or "flaky" (either, per call)
    tz,            \* the build host's UTC offset in seconds (time.mktime is local)
    now_utc,       \* the build time, sampled once (line 126)
    pc,            \* where main() is: "collect", "fetch", "pages", "watches", "done"
    all_urls,      \* fetch_all_feeds: the set of (clean_url, title) pairs
    pending,       \* the pairs the for loop of line 132 has not visited yet
    results,       \* fetch_all_feeds: the results dict, url -> None or source data
    result_keys,   \* the insertion order of the results dict (items() order)
    page_out,      \* per page written so far: its page_feeds_display
    watch_out,     \* per watch written so far: its watch_feeds_display
    fetch_count,   \* history: number of feedparser.parse calls per URL
    fetch_failed,  \* history: URLs for which some fetch ended in the except branch
    fetch_loaded,  \* history: URLs for which some fetch returned a document
    run,           \* which run of the build this is (1 or 2)
    prev_out,      \* the output of the first run, once a second run has begun
    raw_entry,     \* normalizer harness: the raw feed entry
    processed      \* normalizer harness: None, or Some(result of process_entry)

vars == <<config, docs, net, tz, now_utc, pc, all_urls, pending, results,
          result_keys, page_out, watch_out, fetch_count, fetch_failed,
          fetch_loaded, run, prev_out, raw_entry, processed>>

-----------------------------------------------------------------------------
(* Python values *)

None == <<>>
Some(v) == <<v>>
Return(v) == [ok |-> TRUE, val |-> v]
Raise(exc) == [ok |-> FALSE, exc |-> exc]

\* dict.get(k, default)
Get(d, k, default) == IF k \in DOMAIN d THEN d[k] ELSE default

\* str.lower() on one character of the modelled alphabet
LowerChar(c) ==
    CASE c = "K" -> "k"
      [] c = "N" -> "n"
      [] c = "X" -> "x"
      [] OTHER -> c

\* str.lower()
Lower(s) == [i \in 1..Len(s) |-> LowerChar(s[i])]

\* `k in t` for two str
IsSubstring(k, t) ==
    \E i \in 0..(Len(t) - Len(k)) : SubSeq(t, i + 1, i + Len(k)) = k

Whitespace == {" ", "\n", "\t", "\r"}

RECURSIVE LStrip(_)
LStrip(s) ==
    IF Len(s) > 0 /\ Head(s) \in Whitespace THEN LStrip(Tail(s)) ELSE s

RECURSIVE RStrip(_)
RStrip(s) ==
    IF Len(s) > 0 /\ s[Len(s)] \in Whitespace
    THEN RStrip(SubSeq(s, 1, Len(s) - 1))
    ELSE s

\* str.strip()
Strip(s) == RStrip(LStrip(s))

\* the first of the indexes at which a scan hits, 0 if it hits nowhere
FirstHit(hits) ==
    IF hits = {} THEN 0 ELSE CHOOSE i \in hits : \A j \in hits : i <= j

\* s[:n]
Take(s, n) == SubSeq(s, 1, IF Len(s) < n THEN Len(s) ELSE n)

-----------------------------------------------------------------------------
(* Module-level settings, lines 17-18 *)

max_entries == 10
new_threshold_hours == 24

-----------------------------------------------------------------------------
(* Entry normalizer *)

\* time.mktime reads the struct_time (UTC in feedparser) as local time
mktime(st) == st - tz

parse_date(entry) ==
    IF "published_parsed" \in DOMAIN entry /\ entry["published_parsed"] # None
    THEN Some(mktime(entry["published_parsed"][1]))
    ELSE IF "updated_parsed" \in DOMAIN entry /\ entry["updated_parsed"] # None
    THEN Some(mktime(entry["updated_parsed"][1]))
    ELSE None

\* format_relative_time with the first boundary taken inclusively (<= 3600)
format_relative_time_inclusive(dt_obj, now) ==
    IF dt_obj = None THEN <<>>
    ELSE LET seconds == now - dt_obj[1]
         IN IF seconds <= 3600 THEN <<"min", seconds \div 60>>
            ELSE IF seconds < 86400 THEN <<"hour", seconds \div 3600>>
            ELSE IF seconds < 172800 THEN <<"yesterday", 0>>
            ELSE <<"day", seconds \div 86400>>

\* "" is <<>>; the four labels are <<unit, n>>
format_relative_time(dt_obj, now) ==
    IF dt_obj = None THEN <<>>
    ELSE LET seconds == now - dt_obj[1]
         IN IF seconds < 3600 THEN <<"min", seconds \div 60>>
            ELSE IF seconds < 86400 THEN <<"hour", seconds \div 3600>>
            ELSE IF seconds < 172800 THEN <<"yesterday", 0>>
            ELSE <<"day", seconds \div 86400>>

\* the one character that stands for an <img ... src="..."> tag, and its src
ImgTag == "<img src='p.png'>"
ImgSrc == <<"p.png">>

IsImgTag(c) == c = ImgTag

\* re.search(r'<img[^>]+src=["\'](.*?)["\']', content): the first tag's src
img_search(content) ==
    IF FirstHit({i \in 1..Len(content) : IsImgTag(content[i])}) > 0
    THEN Some(ImgSrc) ELSE None

\* line 63: 'image' in media.get('type', '') or 'medium' in media and ...
MediaIsImage(media) ==
    \/ IsSubstring(<<"image">>, Get(media, "type", <<>>))
    \/ ("medium" \in DOMAIN media /\ media["medium"] = <<"image">>)

\* line 69
LinkIsImageEnclosure(link) ==
    /\ Get(link, "rel", None) = <<"enclosure">>
    /\ IsSubstring(<<"image">>, Get(link, "type", <<>>))

\* entry.get('content', [{'value': ''}])[0]['value'], lines 71 and 99
content_value(entry) ==
    LET c == Get(entry, "content", <<[value |-> <<>>]>>)
    IN IF Len(c) = 0 THEN Raise("IndexError")
       ELSE IF "value" \notin DOMAIN c[1] THEN Raise("KeyError")
       ELSE Return(c[1]["value"])

\* lines 71-75
extract_image_text(entry) ==
    LET cv == content_value(entry)
    IN IF ~cv.ok THEN cv
       ELSE Return(img_search(Get(entry, "summary", <<>>) \o cv.val))

\* lines 67-70, then the text scan
extract_image_links(entry) ==
    LET i == IF "links" \in DOMAIN entry
             THEN FirstHit({j \in 1..Len(entry["links"]) :
                               LinkIsImageEnclosure(entry["links"][j])})
             ELSE 0
    IN IF i > 0
       THEN (IF "href" \in DOMAIN entry["links"][i]
             THEN Return(Some(entry["links"][i]["href"]))
             ELSE Raise("KeyError"))
       ELSE extract_image_text(entry)

\* lines 65-66, then the rest
extract_image_thumbnail(entry) ==
    IF "media_thumbnail" \in DOMAIN entry
    THEN (IF Len(entry["media_thumbnail"]) = 0 THEN Raise("IndexError")
          ELSE IF "url" \notin DOMAIN entry["media_thumbnail"][1]
          THEN Raise("KeyError")
          ELSE Return(Some(entry["media_thumbnail"][1]["url"])))
    ELSE extract_image_links(entry)

extract_image(entry) ==
    LET i == IF "media_content" \in DOMAIN entry
             THEN FirstHit({j \in 1..Len(entry["media_content"]) :
                               MediaIsImage(entry["media_content"][j])})
             ELSE 0
    IN IF i > 0
       THEN (IF "url" \in DOMAIN entry["media_content"][i]
             THEN Return(Some(entry["media_content"][i]["url"]))
             ELSE Raise("KeyError"))
       ELSE extract_image_thumbnail(entry)

NoTitle == <<"No Title">>
NoLink == <<"#">>

process_entry(entry, feed_title, feed_link, now) ==
    LET dt == parse_date(entry)
        is_new == dt # None /\ (now - dt[1]) < new_threshold_hours * 3600
        rel_time == IF dt # None THEN format_relative_time(dt, now) ELSE <<>>
        timestamp == IF dt # None THEN dt[1] ELSE 0
        summary == Get(entry, "summary", Get(entry, "description", <<>>))
        content == content_value(entry)
        image_url == extract_image(entry)
    IN IF ~content.ok THEN content
       ELSE IF ~image_url.ok THEN image_url
       ELSE Return([title |-> Get(entry, "title", NoTitle),
                    link |-> Get(entry, "link", NoLink),
                    is_new |-> is_new,
                    relative_time |-> rel_time,
                    summary |-> IF Len(content.val) > Len(summary)
                                THEN content.val ELSE summary,
                    image |-> image_url.val,
                    timestamp |-> timestamp,
                    source_title |-> feed_title])

-----------------------------------------------------------------------------
(* Content filter *)

\* is_ng_content without the keyword's .lower()
is_ng_content_case_sensitive(entry, ng_keywords) ==
    IF Len(ng_keywords) = 0 THEN FALSE
    ELSE LET text == Lower(Get(entry, "title", <<>>) \o Get(entry, "summary", <<>>))
         IN \E i \in 1..Len(ng_keywords) : IsSubstring(ng_keywords[i], text)

is_ng_content(entry, ng_keywords) ==
    IF Len(ng_keywords) = 0 THEN FALSE
    ELSE LET text == Lower(Get(entry, "title", <<>>) \o Get(entry, "summary", <<>>))
         IN \E i \in 1..Len(ng_keywords) : IsSubstring(Lower(ng_keywords[i]), text)

-----------------------------------------------------------------------------
(* Feed aggregator *)

UnknownFeed == <<"Unknown Feed">>
FaviconPrefix == <<"https://www.google.com/s2/favicons?domain=">>
SocketErrors == {"socket.timeout", "socket.error"}

\* what feedparser.parse hands back when the transport fails
TimeoutResult ==
    [bozo |-> TRUE, bozo_exception |-> "socket.timeout",
     feed |-> <<>>, entries |-> <<>>]

\* urlparse(url).netloc: a URL is <<scheme, host, path>>
get_domain(url) ==
    IF Len(url) >= 2 /\ url[1] \in {"https://", "http://"} THEN <<url[2]>> ELSE <<>>

\* `x if x` on an optional str
Truthy(opt) == opt # None /\ Len(opt[1]) > 0

\* one feed reference as the pair line 122 adds
feed_pair(feed) ==
    <<Strip(feed["url"]),
      IF "title" \in DOMAIN feed THEN Some(feed["title"]) ELSE None>>

\* lines 118-122
collect_urls(cfg) ==
    LET pages == Get(cfg, "pages", <<>>)
    IN UNION { { feed_pair(Get(pages[i], "feeds", <<>>)[j]) :
                 j \in 1..Len(Get(pages[i], "feeds", <<>>)) } :
               i \in 1..Len(pages) }

\* lines 149-151; an exception in one entry leaves the loop
RECURSIVE process_entries(_, _, _, _)
process_entries(es, feed_title, url, now) ==
    IF Len(es) = 0 THEN Return(<<>>)
    ELSE LET h == process_entry(Head(es), feed_title, url, now)
         IN IF ~h.ok THEN h
            ELSE LET t == process_entries(Tail(es), feed_title, url, now)
                 IN IF ~t.ok THEN t ELSE Return(<<h.val>> \o t.val)

\* the entries a feed contributes, line 149
capped_entries(d) == Take(d.entries, max_entries)

\* line 144
resolve_title(title_override, d) ==
    IF Truthy(title_override) THEN title_override[1]
    ELSE Get(d.feed, "title", UnknownFeed)

\* the body of the loop of line 132 for one pair, given what parse returned:
\* the value stored in results[url] (lines 139-160)
fetch_one(url, title_override, d, now) ==
    IF d.bozo /\ d.bozo_exception \in SocketErrors THEN None
    ELSE LET feed_title == resolve_title(title_override, d)
             domain == get_domain(Get(d.feed, "link", url))
             entries == process_entries(capped_entries(d), feed_title, url, now)
         IN IF ~entries.ok THEN None
            ELSE [title |-> feed_title,
                  favicon |-> FaviconPrefix \o domain,
                  entries |-> entries.val]

\* d[k] = v on a dict
Put(d, k, v) == [x \in (DOMAIN d) \cup {k} |-> IF x = k THEN v ELSE d[x]]

\* the insertion order of a dict after d[k] = v
PutKey(keys, d, k) == IF k \in DOMAIN d THEN keys ELSE Append(keys, k)

-----------------------------------------------------------------------------
(* Page builder and watch builder *)

\* an ascending sort followed by reverse(): descending, ties reversed
RECURSIVE sort_by_timestamp_ties_reversed(_)
sort_by_timestamp_ties_reversed(s) ==
    IF Len(s) = 0 THEN <<>>
    ELSE LET front == sort_by_timestamp_ties_reversed(SubSeq(s, 1, Len(s) - 1))
             x == s[Len(s)]
             n == Cardinality({i \in 1..Len(front) : front[i].timestamp > x.timestamp})
         IN SubSeq(front, 1, n) \o <<x>> \o SubSeq(front, n + 1, Len(front))

\* list.sort(key=timestamp, reverse=True): stable, descending
RECURSIVE sort_by_timestamp(_)
sort_by_timestamp(s) ==
    IF Len(s) = 0 THEN <<>>
    ELSE LET front == sort_by_timestamp(SubSeq(s, 1, Len(s) - 1))
             x == s[Len(s)]
             n == Cardinality({i \in 1..Len(front) : front[i].timestamp >= x.timestamp})
         IN SubSeq(front, 1, n) \o <<x>> \o SubSeq(front, n + 1, Len(front))

valid(e, ng_keywords) == ~is_ng_content(e, ng_keywords)

\* page_entry with new_count taken over the unfiltered entries
page_entry_counts_unfiltered(source_data, ng_keywords) ==
    LET valid_entries == SelectSeq(source_data.entries,
                                   LAMBDA e : ~is_ng_content(e, ng_keywords))
        new_count == Len(SelectSeq(source_data.entries, LAMBDA e : e.is_new))
    IN [title |-> source_data.title,
        favicon |-> source_data.favicon,
        has_new |-> new_count > 0,
        total_count |-> Len(valid_entries),
        new_count |-> new_count,
        entries |-> valid_entries]

\* lines 201-214
page_entry(source_data, ng_keywords) ==
    LET valid_entries == SelectSeq(source_data.entries,
                                   LAMBDA e : valid(e, ng_keywords))
        new_count == Len(SelectSeq(valid_entries, LAMBDA e : e.is_new))
    IN [title |-> source_data.title,
        favicon |-> source_data.favicon,
        has_new |-> new_count > 0,
        total_count |-> Len(valid_entries),
        new_count |-> new_count,
        entries |-> valid_entries]

\* lines 196-214
RECURSIVE page_feeds_display(_, _, _)
page_feeds_display(feeds, ng_keywords, all_feeds_data) ==
    IF Len(feeds) = 0 THEN <<>>
    ELSE LET url == Strip(Head(feeds)["url"])
             source_data == Get(all_feeds_data, url, None)
             rest == page_feeds_display(Tail(feeds), ng_keywords, all_feeds_data)
         IN IF source_data # None
            THEN <<page_entry(source_data, ng_keywords)>> \o rest
            ELSE rest

\* lines 246-247
kw_matches(kw, entry) ==
    IsSubstring(Lower(kw), Lower(entry.title \o entry.summary))

\* lines 240-248: the matches of one keyword, in the dict's items() order
RECURSIVE matched_entries(_, _, _, _)
matched_entries(kw, ng_keywords, keys, all_feeds_data) ==
    IF Len(keys) = 0 THEN <<>>
    ELSE LET source_data == all_feeds_data[Head(keys)]
             rest == matched_entries(kw, ng_keywords, Tail(keys), all_feeds_data)
         IN IF source_data = None THEN rest
            ELSE SelectSeq(source_data.entries,
                           LAMBDA e : valid(e, ng_keywords) /\ kw_matches(kw, e))
                 \o rest

\* lines 252-264
watch_entry(kw, matched) ==
    LET new_count == Len(SelectSeq(matched, LAMBDA e : e.is_new))
    IN [title |-> <<"Keyword: ">> \o kw,
        favicon |-> <<>>,
        has_new |-> new_count > 0,
        total_count |-> Len(matched),
        new_count |-> new_count,
        entries |-> matched]

\* lines 237-264
RECURSIVE watch_feeds_display(_, _, _, _)
watch_feeds_display(keywords, ng_keywords, keys, all_feeds_data) ==
    IF Len(keywords) = 0 THEN <<>>
    ELSE LET kw == Head(keywords)
             matched == sort_by_timestamp(
                            matched_entries(kw, ng_keywords, keys, all_feeds_data))
             rest == watch_feeds_display(Tail(keywords), ng_keywords, keys,
                                         all_feeds_data)
         IN IF Len(matched) > 0 THEN <<watch_entry(kw, matched)>> \o rest ELSE rest

Pages == Get(config, "pages", <<>>)
Watches == Get(config, "watches", <<>>)

-----------------------------------------------------------------------------
(* Inputs: feed URLs, feed references, raw entries, feed documents *)

MaxPages == 2
MaxDocEntries == 2
Slack == 1

\* the build times tried; feed dates are given relative to the build time
BuildTimes == {500000}
Now == now_utc

TzOffsets == {0, 32400}

UrlU == <<"https://", "u.example", "/rss">>
UrlV == <<"https://", "v.example", "/feed">>
FeedUrls == {UrlU, UrlV}

\* feed references as feeds.json writes them
RefU == [url |-> UrlU]
RefUA == [url |-> <<" ">> \o UrlU \o <<"\n">>, title |-> <<"A">>]
RefUw == [url |-> UrlU \o <<"\n">>]
RefV == [url |-> UrlV \o <<" ">>, title |-> <<>>]
FeedRefs == {RefU, RefUA, RefUw, RefV}

\* the feeds of a page: one reference, or two different ones
FeedLists ==
    {<<r>> : r \in FeedRefs}
    \cup {l \in {<<r, q>> : r, q \in FeedRefs} : l[1] # l[2]}

\* raw entries as feedparser hands them over
EntNew ==
    [title |-> <<"K", "x">>, link |-> <<"l1">>, summary |-> <<"x">>,
     published_parsed |-> Some(Now - 7200)]
EntOld ==
    [title |-> <<"x">>, summary |-> <<"N", "k">>,
     updated_parsed |-> Some(Now - 90000)]
EntUndated == [summary |-> <<"k", "x">>]
EntEpoch ==
    [title |-> <<"k">>, description |-> <<"x">>, published_parsed |-> Some(0)]
EntSpan ==
    [title |-> <<"x", "k">>, summary |-> <<"n">>,
     content |-> <<[value |-> <<"n", "x", "X">>]>>,
     published_parsed |-> None, updated_parsed |-> Some(Now - 7200)]
EntBad == [title |-> <<"k">>, content |-> <<>>]

Catalog == <<EntNew, EntOld, EntUndated, EntEpoch, EntSpan, EntBad>>

\* n consecutive entries of the catalog, from the i-th, wrapping around
Window(i, n) == [j \in 1..n |-> Catalog[((i + j - 2) % Len(Catalog)) + 1]]

Windows ==
    {Window(i, n) : i \in 1..Len(Catalog), n \in 0..MaxDocEntries}
    \cup {[j \in 1..(max_entries + 1) |-> Catalog[((j - 1) % 5) + 1]]}

MetaFull == [title |-> <<"T">>, link |-> <<"https://", "site.example", "/">>]
MetaBare == <<>>

Doc(meta, entries, soft) ==
    [bozo |-> soft, bozo_exception |-> "CharacterEncodingOverride",
     feed |-> meta, entries |-> entries]

NgOptions == {<<>>, [ng_keywords |-> << <<"N">> >>]}
KeywordLists == { << <<"k">> >>, << <<"z">>, <<"K", "n">> >>, << <<"X">>, <<"x">> >> }

PageConfig(n, feeds, ng) ==
    [page_title |-> <<"page">>, filename |-> <<"p", n>>, feeds |-> feeds] @@ ng

WatchConfig(keywords, ng) ==
    [page_title |-> <<"watch">>, filename |-> <<"w">>, keywords |-> keywords] @@ ng

\* many configurations over two small documents
ConfigInputs ==
    /\ \E n \in 1..MaxPages : \E fl \in [1..n -> FeedLists] :
          config = [pages |-> [i \in 1..n |-> PageConfig(i, fl[i], <<>>)],
                    watches |-> <<WatchConfig(<< <<"k">> >>, <<>>)>>]
    /\ \E m \in {MetaFull, MetaBare} :
          docs = [u \in FeedUrls |->
                    IF u = UrlU THEN Doc(m, <<EntNew, EntUndated>>, m = MetaBare)
                    ELSE Doc(MetaFull, <<EntEpoch>>, FALSE)]

\* many documents under one page and one watch
ContentInputs ==
    /\ \E png \in NgOptions, wng \in NgOptions, kws \in KeywordLists :
          config = [pages |-> <<PageConfig(1, <<RefU, RefV>>, png)>>,
                    watches |-> <<WatchConfig(kws, wng)>>]
    /\ \E eu \in Windows, ev \in Windows :
          docs = [u \in FeedUrls |->
                    IF u = UrlU THEN Doc(MetaFull, eu, FALSE)
                    ELSE Doc(MetaBare, ev, FALSE)]

-----------------------------------------------------------------------------
(* The build: main() *)

InitBuild ==
    /\ all_urls = {}
    /\ pending = {}
    /\ results = <<>>
    /\ result_keys = <<>>
    /\ page_out = <<>>
    /\ watch_out = <<>>
    /\ fetch_count = [u \in FeedUrls |-> 0]
    /\ fetch_failed = {}
    /\ fetch_loaded = {}
    /\ run = 1
    /\ prev_out = None

NoHarness ==
    /\ raw_entry = <<>>
    /\ processed = None

\* one build, on a network where any call may time out
Init ==
    /\ now_utc \in BuildTimes
    /\ tz = 0
    /\ ConfigInputs \/ ContentInputs
    /\ net = [u \in FeedUrls |-> "flaky"]
    /\ pc = "collect"
    /\ InitBuild
    /\ NoHarness

AfterPages == IF Len(Watches) > 0 THEN "watches" ELSE "done"
AfterFetch == IF Len(Pages) > 0 THEN "pages" ELSE AfterPages

\* lines 115-127: the set of pairs to fetch
Collect ==
    /\ pc = "collect"
    /\ all_urls' = collect_urls(config)
    /\ pending' = all_urls'
    /\ results' = <<>>
    /\ result_keys' = <<>>
    /\ pc' = IF all_urls' = {} THEN AfterFetch ELSE "fetch"
    /\ UNCHANGED <<config, docs, net, tz, now_utc, page_out, watch_out,
                   fetch_count, fetch_failed, fetch_loaded, run, prev_out,
                   raw_entry, processed>>

\* whether a call of feedparser.parse for the URL may get the document
Answers(u) == IF net[u] = "up" THEN {TRUE}
              ELSE IF net[u] = "down" THEN {FALSE}
              ELSE {TRUE, FALSE}

\* lines 132-160: one iteration of the loop over the set all_urls, which
\* visits its pairs in an order of the set's own
Fetch ==
    /\ pc = "fetch"
    /\ \E p \in pending : \E up \in Answers(p[1]) :
          LET url == p[1]
              d == IF up THEN docs[url] ELSE TimeoutResult
              v == fetch_one(url, p[2], d, now_utc)
          IN /\ results' = Put(results, url, v)
             /\ result_keys' = PutKey(result_keys, results, url)
             /\ pending' = pending \ {p}
             /\ fetch_count' = [fetch_count EXCEPT ![url] = @ + 1]
             /\ fetch_failed' = IF v = None THEN fetch_failed \cup {url}
                                ELSE fetch_failed
             /\ fetch_loaded' = IF up THEN fetch_loaded \cup {url}
                                ELSE fetch_loaded
             /\ pc' = IF pending' = {} THEN AfterFetch ELSE "fetch"
    /\ UNCHANGED <<config, docs, net, tz, now_utc, all_urls, page_out,
                   watch_out, run, prev_out, raw_entry, processed>>

\* lines 187-223: one page, built and written
BuildPage ==
    /\ pc = "pages"
    /\ LET i == Len(page_out) + 1
           page_config == Pages[i]
       IN /\ page_out' = Append(page_out,
                  page_feeds_display(page_config["feeds"],
                                     Get(page_config, "ng_keywords", <<>>),
                                     results))
          /\ pc' = IF i = Len(Pages) THEN AfterPages ELSE "pages"
    /\ UNCHANGED <<config, docs, net, tz, now_utc, all_urls, pending, results,
                   result_keys, watch_out, fetch_count, fetch_failed,
                   fetch_loaded, run, prev_out, raw_entry, processed>>

\* lines 226-273: one watch page, built and written
BuildWatch ==
    /\ pc = "watches"
    /\ LET i == Len(watch_out) + 1
           watch_config == Watches[i]
       IN /\ watch_out' = Append(watch_out,
                  watch_feeds_display(Get(watch_config, "keywords", <<>>),
                                      Get(watch_config, "ng_keywords", <<>>),
                                      result_keys, results))
          /\ pc' = IF i = Len(Watches) THEN "done" ELSE "watches"
    /\ UNCHANGED <<config, docs, net, tz, now_utc, all_urls, pending, results,
                   result_keys, page_out, fetch_count, fetch_failed,
                   fetch_loaded, run, prev_out, raw_entry, processed>>

Next == Collect \/ Fetch \/ BuildPage \/ BuildWatch

Spec == Init /\ [][Next]_vars

-----------------------------------------------------------------------------
(* Two runs of the build over the same configuration, documents and build  *)
(* time, on a network that answers each URL the same way every time        *)

InitTwice ==
    /\ now_utc \in BuildTimes
    /\ tz = 0
    /\ ConfigInputs
    /\ net \in [FeedUrls -> {"up", "down"}]
    /\ pc = "collect"
    /\ InitBuild
    /\ NoHarness

\* the script is started again: what the first run wrote is kept aside
Restart ==
    /\ pc = "done"
    /\ run = 1
    /\ run' = 2
    /\ prev_out' = Some(<<page_out, watch_out>>)
    /\ pc' = "collect"
    /\ all_urls' = {}
    /\ pending' = {}
    /\ results' = <<>>
    /\ result_keys' = <<>>
    /\ page_out' = <<>>
    /\ watch_out' = <<>>
    /\ fetch_count' = [u \in FeedUrls |-> 0]
    /\ fetch_failed' = {}
    /\ fetch_loaded' = {}
    /\ UNCHANGED <<config, docs, net, tz, now_utc, raw_entry, processed>>

NextTwice == Collect \/ Fetch \/ BuildPage \/ BuildWatch \/ Restart

SpecTwice == InitTwice /\ [][NextTwice]_vars

-----------------------------------------------------------------------------
(* The normalizer alone: process_entry applied to one raw entry *)

Boundaries == {0, 3600, 86400, 172800}

\* ages (build time minus date, in seconds) around each boundary, and others
Deltas ==
    UNION {{b - j, b + j} : b \in Boundaries, j \in 0..Slack}
    \cup {-61, 59, 60, 7199, 7200, 259199, 259200}

DateOptions ==
    {<<>>, [published_parsed |-> None]}
    \cup {[published_parsed |-> Some(Now - d + z)] : d \in Deltas, z \in TzOffsets}
    \cup {[published_parsed |-> Some(e)] : e \in {0, -3600}}

UpdatedOptions ==
    {<<>>, [updated_parsed |-> None], [updated_parsed |-> Some(Now - 7200)]}

\* entries that differ in their dates
DatedEntries ==
    {t @@ p @@ u : t \in {<<>>, [title |-> <<"K", "x">>]},
                   p \in DateOptions, u \in UpdatedOptions}

Png == <<"p2.png">>

\* entries that differ in which fields are there, and in whether they are empty
ShapedEntries ==
    {t @@ l @@ p @@ s @@ d @@ c @@ mc @@ mt @@ lk :
        t \in {<<>>, [title |-> <<>>], [title |-> <<"K", "x">>]},
        l \in {<<>>, [link |-> <<"l1">>]},
        p \in {<<>>, [published_parsed |-> Some(Now - 7200)]},
        s \in {<<>>, [summary |-> <<>>], [summary |-> <<"x", ImgTag>>]},
        d \in {<<>>, [description |-> <<"x", "k", "n">>]},
        c \in {<<>>, [content |-> <<>>], [content |-> <<[value |-> <<"n", "x">>]>>]},
        mc \in {<<>>, [media_content |-> <<>>],
                [media_content |-> <<[type |-> <<"video", "/mp4">>, url |-> Png],
                                     [type |-> <<"image", "/png">>, url |-> Png]>>],
                [media_content |-> <<[medium |-> <<"image">>]>>]},
        mt \in {<<>>, [media_thumbnail |-> <<>>], [media_thumbnail |-> <<[url |-> Png]>>]},
        lk \in {<<>>, [links |-> <<>>],
                [links |-> <<[rel |-> <<"alternate">>, href |-> Png],
                             [rel |-> <<"enclosure">>, type |-> <<"image", "/png">>,
                              href |-> Png]>>]} }

InitEntry ==
    /\ now_utc \in BuildTimes
    /\ \/ tz \in TzOffsets /\ raw_entry \in DatedEntries
       \/ tz = 0 /\ raw_entry \in ShapedEntries
    /\ processed = None
    /\ config = <<>>
    /\ docs = <<>>
    /\ net = <<>>
    /\ pc = "idle"
    /\ InitBuild

\* line 150: one entry of a feed titled "T" is normalized
Normalize ==
    /\ processed = None
    /\ processed' = Some(process_entry(raw_entry, <<"T">>, UrlU, now_utc))
    /\ UNCHANGED <<config, docs, net, tz, now_utc, pc, all_urls, pending,
                   results, result_keys, page_out, watch_out, fetch_count,
                   fetch_failed, fetch_loaded, run, prev_out, raw_entry>>

NextEntry == Normalize

SpecEntry == InitEntry /\ [][NextEntry]_vars

-----------------------------------------------------------------------------
(* Vocabulary of the properties, stated without the program's own helpers *)

CasePairs == {{"k", "K"}, {"n", "N"}, {"x", "X"}}

SameLetter(a, b) == a = b \/ {a, b} \in CasePairs

\* kw occurs in text at some position, letter case ignored
OccursCI(kw, text) ==
    \E i \in 1..(Len(text) + 1) :
        \A j \in 1..Len(kw) :
            i + j - 1 <= Len(text) /\ SameLetter(kw[j], text[i + j - 1])

ArticleText(a) == a.title \o a.summary

\* some keyword of the list occurs in the article's title + body
Banned(a, ng) == \E n \in 1..Len(ng) : OccursCI(ng[n], ArticleText(a))

NgOf(cfg) == Get(cfg, "ng_keywords", <<>>)

Succeeded(u) == u \in DOMAIN results /\ results[u] # None

\* the feed references of page i whose source is in the aggregated pool
PresentFeeds(i) ==
    SelectSeq(Pages[i]["feeds"], LAMBDA f : Succeeded(Strip(f["url"])))

\* every article of every successfully aggregated source, in encounter order
RECURSIVE AllArticles(_)
AllArticles(keys) ==
    IF Len(keys) = 0 THEN <<>>
    ELSE (IF results[Head(keys)] = None THEN <<>> ELSE results[Head(keys)].entries)
         \o AllArticles(Tail(keys))

\* the articles a watch keyword is to show, in encounter order
Matching(kw, ng) ==
    SelectSeq(AllArticles(result_keys),
              LAMBDA a : ~Banned(a, ng) /\ OccursCI(kw, ArticleText(a)))

\* the keywords of watch i that have at least one article to show
ShownKeywords(i) ==
    SelectSeq(Get(Watches[i], "keywords", <<>>),
              LAMBDA kw : Len(Matching(kw, NgOf(Watches[i]))) > 0)

Undated(a) == a.relative_time = <<>>

FetchDone == pc \in {"pages", "watches", "done"}

ConfigUrls == {p[1] : p \in collect_urls(config)}

-----------------------------------------------------------------------------
(* The properties *)

\* C1: in one build the fetcher is called exactly once per distinct trimmed
\* URL of the configuration, however many references and title overrides
\* name that URL.
C1_FetchOncePerUrl ==
    /\ \A u \in FeedUrls : fetch_count[u] <= 1
    /\ FetchDone => \A u \in ConfigUrls : fetch_count[u] = 1

\* C2: a URL whose fetch failed is None in the final mapping, every URL was
\* still fetched, each page shows exactly the references whose URL did not
\* fail, and every page and watch file is written.
C2_FailedUrlIsAbsent ==
    pc = "done" =>
        /\ \A u \in fetch_failed : results[u] = None
        /\ ConfigUrls \subseteq DOMAIN results
        /\ Len(page_out) = Len(Pages) /\ Len(watch_out) = Len(Watches)
        /\ \A i \in 1..Len(Pages) :
              Len(page_out[i]) =
                 Len(SelectSeq(Pages[i]["feeds"],
                               LAMBDA f : Strip(f["url"]) \notin fetch_failed))

\* C3: no article shown on a page or under a watch keyword contains, case
\* ignored, an NG keyword of that page or watch in title + body; and with an
\* empty NG list nothing is left out: a page shows all of each source's
\* articles and a watch shows every article that contains the keyword.
C3_NgFilter ==
    /\ \A i \in 1..Len(page_out) : \A j \in 1..Len(page_out[i]) :
          /\ \A k \in 1..Len(page_out[i][j].entries) :
                ~Banned(page_out[i][j].entries[k], NgOf(Pages[i]))
          /\ (Len(NgOf(Pages[i])) = 0 /\ Len(PresentFeeds(i)) = Len(page_out[i]))
                => page_out[i][j].entries =
                      results[Strip(PresentFeeds(i)[j]["url"])].entries
    /\ \A i \in 1..Len(watch_out) :
          /\ \A j \in 1..Len(watch_out[i]) :
                \A k \in 1..Len(watch_out[i][j].entries) :
                    ~Banned(watch_out[i][j].entries[k], NgOf(Watches[i]))
          /\ Len(NgOf(Watches[i])) = 0 =>
                \A n \in 1..Len(Watches[i]["keywords"]) :
                \A m \in 1..Len(AllArticles(result_keys)) :
                    LET kw == Watches[i]["keywords"][n]
                        a == AllArticles(result_keys)[m]
                    IN OccursCI(kw, ArticleText(a)) =>
                          \E j \in 1..Len(watch_out[i]) :
                              /\ watch_out[i][j].title = <<"Keyword: ">> \o kw
                              /\ \E k \in 1..Len(watch_out[i][j].entries) :
                                    watch_out[i][j].entries[k] = a

\* C3 witness: the build is done, the page and the watch both declare an NG
\* keyword, and a fetched article that a watch keyword matches carries that
\* NG keyword only in the other letter case.
C3_Witness ==
    /\ pc = "done"
    /\ Len(NgOf(Pages[1])) > 0 /\ Len(NgOf(Watches[1])) > 0
    /\ \E m \in 1..Len(AllArticles(result_keys)) :
          LET a == AllArticles(result_keys)[m]
          IN /\ Banned(a, NgOf(Pages[1])) /\ Banned(a, NgOf(Watches[1]))
             /\ ~IsSubstring(NgOf(Pages[1])[1], ArticleText(a))
             /\ \E n \in 1..Len(Watches[1]["keywords"]) :
                   OccursCI(Watches[1]["keywords"][n], ArticleText(a))

\* C4: the entries of a watch page are, in order, those of its keywords that
\* have a match; each entry's articles are exactly the articles of all
\* successfully aggregated sources that pass the watch's NG filter and
\* contain the keyword, sorted by timestamp descending, articles of equal
\* timestamp in encounter order.
C4_WatchMatches ==
    \A i \in 1..Len(watch_out) :
        /\ Len(watch_out[i]) = Len(ShownKeywords(i))
        /\ \A j \in 1..Len(watch_out[i]) :
              LET out == watch_out[i][j].entries
                  enc == Matching(ShownKeywords(i)[j], NgOf(Watches[i]))
              IN /\ Len(out) = Len(enc)
                 /\ \A a, b \in 1..Len(out) :
                       a < b => out[a].timestamp >= out[b].timestamp
                 /\ \A t \in {enc[a].timestamp : a \in 1..Len(enc)} :
                       SelectSeq(out, LAMBDA x : x.timestamp = t)
                          = SelectSeq(enc, LAMBDA x : x.timestamp = t)

\* C4 witness: a watch entry holds articles of two sources, two of them of
\* equal timestamp, and the sort has moved an article.
C4_Witness ==
    /\ pc = "done"
    /\ Len(watch_out[1]) > 0
    /\ LET out == watch_out[1][1].entries
           enc == Matching(ShownKeywords(1)[1], NgOf(Watches[1]))
       IN /\ out # enc
          /\ \E a, b \in 1..Len(out) :
                /\ a < b
                /\ out[a].timestamp = out[b].timestamp
                /\ out[a].source_title # out[b].source_title

\* the date the normalizer is to resolve: published, else updated, read by
\* the host as local time; None when neither is there
PublishedAt(entry) ==
    IF "published_parsed" \in DOMAIN entry /\ Len(entry["published_parsed"]) > 0
    THEN Some(entry["published_parsed"][1] - tz)
    ELSE IF "updated_parsed" \in DOMAIN entry /\ Len(entry["updated_parsed"]) > 0
    THEN Some(entry["updated_parsed"][1] - tz)
    ELSE None

C6_UndatedLast ==
    /\ \A m \in 1..Len(AllArticles(result_keys)) :
          Undated(AllArticles(result_keys)[m])
             => AllArticles(result_keys)[m].timestamp = 0
    /\ \A i \in 1..Len(watch_out) : \A j \in 1..Len(watch_out[i]) :
          \A a, b \in 1..Len(watch_out[i][j].entries) :
              a < b => ~(/\ Undated(watch_out[i][j].entries[a])
                         /\ ~Undated(watch_out[i][j].entries[b]))

\* C7: the second run of the build, over the same configuration, documents,
\* network answers and build time, writes what the first run wrote.
C7_Idempotent ==
    (run = 2 /\ pc = "done") => <<page_out, watch_out>> = prev_out[1]

\* C8: normalizing an entry never raises: it always returns a record.
C8_NormalizeNeverFails ==
    processed # None => processed[1].ok

\* the title a feed reference is to be shown under
ExpectedTitle(f) ==
    IF "title" \in DOMAIN f /\ Len(f["title"]) > 0 THEN f["title"]
    ELSE Get(docs[Strip(f["url"])].feed, "title", UnknownFeed)

\* C9: each reference of a page whose URL was fetched is shown under its own
\* override if it has one, else the document's title, else "Unknown Feed",
\* and its articles carry that title.
C9_TitlePerReference ==
    pc = "done" =>
        \A i \in 1..Len(Pages) :
            /\ Len(page_out[i]) = Len(PresentFeeds(i))
            /\ \A j \in 1..Len(page_out[i]) :
                  /\ page_out[i][j].title = ExpectedTitle(PresentFeeds(i)[j])
                  /\ \A k \in 1..Len(page_out[i][j].entries) :
                        page_out[i][j].entries[k].source_title
                           = ExpectedTitle(PresentFeeds(i)[j])

Displays ==
    UNION {{page_out[i][j] : j \in 1..Len(page_out[i])} : i \in 1..Len(page_out)}
    \cup UNION {{watch_out[i][j] : j \in 1..Len(watch_out[i])} :
                 i \in 1..Len(watch_out)}

\* C10: in every page and watch entry total_count is the number of articles,
\* new_count the number of new ones and has_new says new_count > 0; a page
\* entry holds its source's articles that no NG keyword bans, in the
\* source's order, at most 10 of them.
C10_Counts ==
    /\ \A d \in Displays :
          /\ d.total_count = Len(d.entries)
          /\ d.new_count = Cardinality({k \in 1..Len(d.entries) : d.entries[k].is_new})
          /\ 0 <= d.new_count /\ d.new_count <= d.total_count
          /\ d.has_new <=> d.new_count > 0
    /\ \A i \in 1..Len(page_out) :
          /\ Len(page_out[i]) = Len(PresentFeeds(i))
          /\ \A j \in 1..Len(page_out[i]) :
                /\ page_out[i][j].entries =
                      SelectSeq(results[Strip(PresentFeeds(i)[j]["url"])].entries,
                                LAMBDA a : ~Banned(a, NgOf(Pages[i])))
                /\ Len(page_out[i][j].entries) <= max_entries

\* C10 witness: a page entry cut to 10 articles, some but not all of them
\* new, beside a page entry that lost a new article to the NG filter.
C10_Witness ==
    /\ pc = "done"
    /\ \E d \in Displays :
          d.total_count = max_entries /\ 0 < d.new_count /\ d.new_count < d.total_count
    /\ \E j \in 1..Len(page_out[1]) :
          LET src == results[Strip(PresentFeeds(1)[j]["url"])].entries
          IN /\ page_out[1][j].total_count < Len(src)
             /\ \E k \in 1..Len(src) : src[k].is_new /\ Banned(src[k], NgOf(Pages[1]))

====
